---- MODULE Spec2Model ----
(***************************************************************************)
(* BuildWithData: the node-based containers (Queue, Stack), the            *)
(* DatabaseConnector gateway and the TaskManager orchestrator.             *)
(***************************************************************************)
EXTENDS Integers, Sequences, FiniteSets, TLC

\* ------------------------------------------------------------------ bounds
\* Container harness: number of operations applied, and the item alphabet 1..MaxItem.
MaxOps == 4
MaxItem == 2

\* Pipeline: tasks in all (rows ever inserted plus tasks queued), entry points
\* called after submission (process-queue, load-scheduler, run-scheduler, undo),
\* priorities 1..MaxPriority, and the number of failures injected into gateway
\* calls (an external row deletion counts as one).
MaxTasks == 2
MaxCalls == 5
MaxPriority == 2
MaxFaults == 1

\* Two runs against one store: updateTaskStatus calls made by each run.
MaxRunCalls == 1

\* nullptr: the value of head/tail/top/next when no node is referenced.
nullptr == 0

VARIABLES
    \* container harness (SpecContainers): one object of each container class
    tq,         \* a Queue<T>          (Queue.h, templated)
    lq,         \* a Queue of Task*    (Queue.cpp, non-templated)
    ts,         \* a Stack<T>          (Stack.h)
    opLog,      \* the operations applied so far, with what each returned
    last,       \* the container state before the last operation
    \* storage, as seen through the DatabaseConnector's one connection
    Tasks,          \* the committed rows of table Tasks: task_id |-> row
    session,        \* the rows as the connection sees them (its open transaction's
                    \* uncommitted changes included)
    autoCommit,     \* the connection's autocommit mode
    nextId,         \* the table's AUTO_INCREMENT counter
    clock,          \* wall clock, in half seconds
    \* TaskManager
    new_task_queue, \* Queue<std::unique_ptr<Task>>
    task_scheduler, \* PriorityQueue<std::shared_ptr<Task>, int>
    undo_stack,     \* Stack<UndoAction>
    pc,             \* where the single thread of control is
    cur,            \* run_task_scheduler's local `task` between its two updates
    \* observation
    calls,          \* what the current (or last) entry-point call did, in order
    script,         \* how far the calls so far follow main()'s sequence
    submitted,      \* number of submit_new_task calls
    ncalls,         \* number of other entry-point calls
    faults,         \* number of failures injected so far
    \* two pipeline runs sharing the store (SpecTwoRuns), each on its own connection
    runs,           \* per run: where its updateTaskStatus call stands, its
                    \* connection's autocommit mode and uncommitted writes
    rowLock,        \* the run holding the exclusive lock on the contended row
    serial          \* the same calls executed one at a time, each as a whole, in
                    \* the order they commit or give up

cvars == <<tq, lq, ts, opLog, last>>
dbvars == <<Tasks, session, autoCommit, nextId>>
tmvars == <<new_task_queue, task_scheduler, undo_stack>>
avars == <<Tasks, session, autoCommit, nextId, clock, new_task_queue, task_scheduler,
           undo_stack, pc, cur, calls, script, submitted, ncalls, faults>>
rvars == <<runs, rowLock, serial>>
vars == <<tq, lq, ts, opLog, last, Tasks, session, autoCommit, nextId, clock,
          new_task_queue, task_scheduler, undo_stack, pc, cur, calls, script,
          submitted, ncalls, faults, runs, rowLock, serial>>

\* ------------------------------------------------------------ Node / heap
\* A container owns a heap of nodes: address |-> [data, next].  new Node(val)
\* takes an unused address and sets next to nullptr; delete releases the address.
Node(val) == [data |-> val, next |-> nullptr]

NewAddr(nodes) ==
    CHOOSE a \in 1..(Cardinality(DOMAIN nodes) + 1) : a \notin DOMAIN nodes

Alloc(nodes, a, node) == [x \in DOMAIN nodes \cup {a} |-> IF x = a THEN node ELSE nodes[x]]

Delete(nodes, a) == [x \in DOMAIN nodes \ {a} |-> nodes[x]]

EmptyHeap == [x \in {} |-> Node(0)]

\* The payloads reachable from address a following next, in order.
RECURSIVE Chain(_, _)
Chain(nodes, a) ==
    IF a = nullptr THEN <<>> ELSE <<nodes[a].data>> \o Chain(nodes, nodes[a].next)

\* What an operation hands back: the new object, the returned value, and the
\* exception thrown ("none" when it returns normally).
Outcome(obj, val, thrown) == [obj |-> obj, value |-> val, thrown |-> thrown]

\* ------------------------------------------------------------- Queue<T>
Queue_new == [head |-> nullptr, tail |-> nullptr, _size |-> 0, nodes |-> EmptyHeap]

Queue_isEmpty(q) == q.head = nullptr

Queue_size(q) == q._size

\* Mutant of Queue_enqueue: the old tail is not linked to the new node.
Queue_enqueue_unlinked(q, data) ==
    LET newNode == NewAddr(q.nodes)
        heap == Alloc(q.nodes, newNode, Node(data))
    IN  IF Queue_isEmpty(q)
        THEN [head |-> newNode, tail |-> newNode, _size |-> q._size + 1, nodes |-> heap]
        ELSE [head |-> q.head, tail |-> newNode, _size |-> q._size + 1, nodes |-> heap]

Queue_enqueue(q, data) ==
    LET newNode == NewAddr(q.nodes)
        heap == Alloc(q.nodes, newNode, Node(data))
    IN  IF Queue_isEmpty(q)
        THEN [head |-> newNode, tail |-> newNode, _size |-> q._size + 1, nodes |-> heap]
        ELSE [head |-> q.head, tail |-> newNode, _size |-> q._size + 1,
              nodes |-> [heap EXCEPT ![q.tail].next = newNode]]

\* Mutant of Queue_dequeue: tail is not reset when the last node is removed.
Queue_dequeue_staleTail(q) ==
    IF Queue_isEmpty(q)
    THEN Outcome(q, nullptr, "runtime_error")
    ELSE LET temp == q.head
             data == q.nodes[q.head].data
             head == q.nodes[q.head].next
         IN  Outcome([head |-> head,
                      tail |-> q.tail,
                      _size |-> q._size - 1,
                      nodes |-> Delete(q.nodes, temp)],
                     data, "none")

Queue_dequeue(q) ==
    IF Queue_isEmpty(q)
    THEN Outcome(q, nullptr, "runtime_error")
    ELSE LET temp == q.head
             data == q.nodes[q.head].data
             head == q.nodes[q.head].next
         IN  Outcome([head |-> head,
                      tail |-> IF head = nullptr THEN nullptr ELSE q.tail,
                      _size |-> q._size - 1,
                      nodes |-> Delete(q.nodes, temp)],
                     data, "none")

\* ------------------------------------------------- Queue (Task*, Queue.cpp)
TaskQueue_new == [head |-> nullptr, tail |-> nullptr, _size |-> 0, nodes |-> EmptyHeap]

TaskQueue_isEmpty(q) == q.head = nullptr

TaskQueue_size(q) == q._size

TaskQueue_enqueue(q, data) ==
    LET newNode == NewAddr(q.nodes)
        heap == Alloc(q.nodes, newNode, Node(data))
    IN  IF TaskQueue_isEmpty(q)
        THEN [head |-> newNode, tail |-> newNode, _size |-> q._size + 1, nodes |-> heap]
        ELSE [head |-> q.head, tail |-> newNode, _size |-> q._size + 1,
              nodes |-> [heap EXCEPT ![q.tail].next = newNode]]

TaskQueue_dequeue(q) ==
    IF TaskQueue_isEmpty(q)
    THEN Outcome(q, nullptr, "none")
    ELSE LET temp == q.head
             taskData == q.nodes[q.head].data
             head == q.nodes[q.head].next
         IN  Outcome([head |-> head,
                      tail |-> IF head = nullptr THEN nullptr ELSE q.tail,
                      _size |-> q._size - 1,
                      nodes |-> Delete(q.nodes, temp)],
                     taskData, "none")

\* ------------------------------------------------------------- Stack<T>
Stack_new == [top |-> nullptr, _size |-> 0, nodes |-> EmptyHeap]

Stack_isEmpty(s) == s.top = nullptr

Stack_size(s) == s._size

\* Mutant of Stack_push: the new node is not linked to the old top.
Stack_push_unlinked(s, data) ==
    LET newNode == NewAddr(s.nodes)
    IN  [top |-> newNode, _size |-> s._size + 1,
         nodes |-> Alloc(s.nodes, newNode, Node(data))]

Stack_push(s, data) ==
    LET newNode == NewAddr(s.nodes)
    IN  [top |-> newNode, _size |-> s._size + 1,
         nodes |-> Alloc(s.nodes, newNode, [data |-> data, next |-> s.top])]

Stack_pop(s) ==
    IF Stack_isEmpty(s)
    THEN Outcome(s, nullptr, "runtime_error")
    ELSE LET temp == s.top
             data == s.nodes[s.top].data
         IN  Outcome([top |-> s.nodes[s.top].next, _size |-> s._size - 1,
                      nodes |-> Delete(s.nodes, temp)],
                     data, "none")

Stack_peek(s) ==
    IF Stack_isEmpty(s)
    THEN Outcome(s, nullptr, "runtime_error")
    ELSE Outcome(s, s.nodes[s.top].data, "none")

\* --------------------------------------------- PriorityQueue<T, P> (scheduler)
\* Entries are kept in insertion order, each stamped with its insertion number;
\* extract_min removes the entry with the smallest key, the earliest inserted
\* among equal keys, and returns the (key, data) pair.
PriorityQueue_new == [items |-> <<>>, inserted |-> 0]

PriorityQueue_isEmpty(pq) == pq.items = <<>>

PriorityQueue_size(pq) == Len(pq.items)

PriorityQueue_insert(pq, data, key) ==
    [items |-> Append(pq.items, [key |-> key, data |-> data, seq |-> pq.inserted + 1]),
     inserted |-> pq.inserted + 1]

PriorityQueue_extract_min(pq) ==
    IF PriorityQueue_isEmpty(pq)
    THEN Outcome(pq, nullptr, "runtime_error")
    ELSE LET i == CHOOSE k \in 1..Len(pq.items) :
                    \A j \in 1..Len(pq.items) :
                        \/ pq.items[k].key < pq.items[j].key
                        \/ /\ pq.items[k].key = pq.items[j].key
                           /\ pq.items[k].seq <= pq.items[j].seq
             rest == [j \in 1..(Len(pq.items) - 1) |->
                        IF j < i THEN pq.items[j] ELSE pq.items[j + 1]]
         IN  Outcome([items |-> rest, inserted |-> pq.inserted],
                     [first |-> pq.items[i].key, second |-> pq.items[i].data,
                      seq |-> pq.items[i].seq],
                     "none")

\* ------------------------------------------------------ Task / UndoAction
\* A Task object. title stands for the caller's text (here the submission number);
\* description and assignee_id are carried through unread and are left out.
Task(t, p, s, id) == [task_id |-> id, title |-> t, priority |-> p, status |-> s]

NoTask == Task(0, 0, "", 0)

UndoAction(name, d) == [action_name |-> name, data |-> d]

\* std::to_string on a non-negative int: its decimal digits, most significant first.
RECURSIVE to_string(_)
to_string(n) == IF n < 10 THEN <<n>> ELSE to_string(n \div 10) \o <<n % 10>>

\* std::stoi on a string of decimal digits.
RECURSIVE stoi(_)
stoi(str) ==
    IF Len(str) = 0 THEN 0
    ELSE 10 * stoi(SubSeq(str, 1, Len(str) - 1)) + str[Len(str)]

\* ------------------------------------------------------ table Tasks (DDL)
Statuses == {"pending", "in_progress", "completed"}

Priorities == 1..MaxPriority

Row(t, p, s, at) == [title |-> t, priority |-> p, status |-> s, created_at |-> at]

NoRows == [id \in {} |-> Row(0, 0, "", 0)]

\* CURRENT_TIMESTAMP has a resolution of one second.
CURRENT_TIMESTAMP(now) == now \div 2

\* The connection and the table as one value, for the gateway's operators.
Db(committed, view, ac, next) ==
    [Tasks |-> committed, session |-> view, autoCommit |-> ac, nextId |-> next]

\* A statement that changes rows: in autocommit mode it is committed at once,
\* otherwise it stays in the connection's open transaction.
Execute(db, view) ==
    [db EXCEPT !.session = view, !.Tasks = IF db.autoCommit THEN view ELSE db.Tasks]

Commit(db) == [db EXCEPT !.Tasks = db.session]

Rollback(db) == [db EXCEPT !.session = db.Tasks]

\* What a gateway call hands back: the storage after it, what it returned, and
\* the exception that left it ("none" when it returned).
Reply(db, ret, thrown) == [db |-> db, ret |-> ret, thrown |-> thrown]

\* --------------------------------------------------- DatabaseConnector
\* createTask.  fail names the statement that throws sql::SQLException:
\* "none", "insert" (the INSERT) or "last_id" (SELECT LAST_INSERT_ID()).
\* Returns the pair (the returned pointer is not nullptr, the Task object after
\* the call): the object gets its task_id only when LAST_INSERT_ID() was read.
CreateFailures == {"none", "insert", "last_id"}

createTask(db, task, now, fail) ==
    IF fail = "insert"
    THEN Reply(db, [first |-> FALSE, second |-> task], "none")
    ELSE LET id == db.nextId
             row == Row(task.title, task.priority, task.status, CURRENT_TIMESTAMP(now))
             view == [x \in DOMAIN db.session \cup {id} |->
                        IF x = id THEN row ELSE db.session[x]]
             after == [Execute(db, view) EXCEPT !.nextId = id + 1]
         IN  IF fail = "last_id"
             THEN Reply(after, [first |-> FALSE, second |-> task], "none")
             ELSE Reply(after, [first |-> TRUE, second |-> [task EXCEPT !.task_id = id]], "none")

\* The orders in which SELECT ... WHERE status = 'pending' ORDER BY priority ASC,
\* created_at ASC may return the rows: every order sorted on (priority, created_at).
PendingIds(db) == {id \in DOMAIN db.session : db.session[id].status = "pending"}

PendingOrders(db) ==
    LET ids == PendingIds(db)
        n == Cardinality(ids)
    IN  {o \in [1..n -> ids] :
            /\ \A i, j \in 1..n : i # j => o[i] # o[j]
            /\ \A i, j \in 1..n : i < j =>
                  \/ db.session[o[i]].priority < db.session[o[j]].priority
                  \/ /\ db.session[o[i]].priority = db.session[o[j]].priority
                     /\ db.session[o[i]].created_at <= db.session[o[j]].created_at}

\* getPendingTasks.  order is the order the query returns the rows in and got the
\* number of rows mapped before an sql::SQLException (got = Len(order): none thrown).
\* Returns the Task objects built so far, also after an exception.
\* Mutant of getPendingTasks: the task_id column is not read into the Task objects.
getPendingTasks_unkeyed(db, order, got) ==
    Reply(db,
          [i \in 1..got |->
              Task(db.session[order[i]].title, db.session[order[i]].priority,
                   db.session[order[i]].status, 0)],
          "none")

getPendingTasks(db, order, got) ==
    Reply(db,
          [i \in 1..got |->
              Task(db.session[order[i]].title, db.session[order[i]].priority,
                   db.session[order[i]].status, order[i])],
          "none")

\* updateTaskStatus.  fail.at names the statement that throws sql::SQLException:
\* "none", "begin" (setAutoCommit(false)), "select", "update", "commit" or "reset"
\* (setAutoCommit(true) after the commit).  fail.rb says how the handler's
\* rollback goes: "ok", "rollback" (rollback() throws) or "reset" (its
\* setAutoCommit(true) throws).  Returns the pair (success, old_status).
UpdateFailures ==
    {[at |-> "none", rb |-> "ok"]} \cup
    [at : {"begin", "select", "update", "commit", "reset"}, rb : {"ok", "rollback", "reset"}]

\* A call that fails counts as one injected failure, however its rollback goes.
FailureCost(fail) == IF fail.at = "none" THEN 0 ELSE 1

Pair(a, b) == [first |-> a, second |-> b]

\* The catch (sql::SQLException &) block, entered with storage db and old_status.
updateTaskStatus_catch(db, old_status, rb) ==
    LET after == IF rb = "rollback" THEN db
                 ELSE IF rb = "reset" THEN Rollback(db)
                 ELSE [Rollback(db) EXCEPT !.autoCommit = TRUE]
    IN  Reply(after, Pair(FALSE, old_status), "none")

\* Mutant of updateTaskStatus: the status is read back after the UPDATE, so the
\* pair returned on success carries the new status.
updateTaskStatus_readsAfterWrite(db, task_id, new_status, fail) ==
    IF fail.at = "begin" THEN updateTaskStatus_catch(db, "", fail.rb)
    ELSE
    LET begun == [db EXCEPT !.autoCommit = FALSE]
    IN  IF fail.at = "select" THEN updateTaskStatus_catch(begun, "", fail.rb)
        ELSE IF task_id \notin DOMAIN begun.session
        THEN Reply(begun, Pair(FALSE, ""), "runtime_error")
        ELSE
        LET updated == Execute(begun, [begun.session EXCEPT ![task_id].status = new_status])
            old_status == updated.session[task_id].status
            committed == Commit(updated)
        IN  IF fail.at = "update" THEN updateTaskStatus_catch(begun, old_status, fail.rb)
            ELSE IF fail.at = "commit" THEN updateTaskStatus_catch(updated, old_status, fail.rb)
            ELSE IF fail.at = "reset" THEN updateTaskStatus_catch(committed, old_status, fail.rb)
            ELSE Reply([committed EXCEPT !.autoCommit = TRUE], Pair(TRUE, old_status), "none")

updateTaskStatus(db, task_id, new_status, fail) ==
    IF fail.at = "begin" THEN updateTaskStatus_catch(db, "", fail.rb)
    ELSE
    LET begun == [db EXCEPT !.autoCommit = FALSE]
    IN  IF fail.at = "select" THEN updateTaskStatus_catch(begun, "", fail.rb)
        ELSE IF task_id \notin DOMAIN begun.session
        THEN Reply(begun, Pair(FALSE, ""), "runtime_error")
        ELSE
        LET old_status == begun.session[task_id].status
            updated == Execute(begun, [begun.session EXCEPT ![task_id].status = new_status])
            committed == Commit(updated)
        IN  IF fail.at = "update" THEN updateTaskStatus_catch(begun, old_status, fail.rb)
            ELSE IF fail.at = "commit" THEN updateTaskStatus_catch(updated, old_status, fail.rb)
            ELSE IF fail.at = "reset" THEN updateTaskStatus_catch(committed, old_status, fail.rb)
            ELSE Reply([committed EXCEPT !.autoCommit = TRUE], Pair(TRUE, old_status), "none")

\* ------------------------------------------------------------ TaskManager
\* One observed step of an entry point: a gateway call with what it returned
\* (ok, old), the exception that left it and the statement that failed in it; a
\* container removal or insertion; or a line printed.
Ev(op, id, arg, ok, old, thrown, fail) ==
    [op |-> op, id |-> id, arg |-> arg, ok |-> ok, old |-> old, thrown |-> thrown,
     fail |-> fail]

TheDb == Db(Tasks, session, autoCommit, nextId)

SetDb(db) ==
    /\ Tasks' = db.Tasks
    /\ session' = db.session
    /\ autoCommit' = db.autoCommit
    /\ nextId' = db.nextId

\* main() calls submit_new_task (several times), process_new_task_queue,
\* load_tasks_into_scheduler, run_task_scheduler and undo_last_action, in that
\* order; undo is caller-invoked and may be repeated.  script is the last of
\* these reached, "off" once the calls made differ from that order.
MainOrder(call) ==
    IF call = "submit" /\ script = "submit" THEN "submit"
    ELSE IF call = "process" /\ script = "submit" THEN "process"
    ELSE IF call = "load" /\ script = "process" THEN "load"
    ELSE IF call = "run" /\ script = "load" THEN "run"
    ELSE IF call = "undo" /\ script \in {"run", "undo"} THEN "undo"
    ELSE "off"

EntryPoint(call) ==
    /\ pc = "idle"
    /\ ncalls < MaxCalls
    /\ ncalls' = ncalls + 1
    /\ script' = MainOrder(call)

\* The failures an updateTaskStatus call may meet within the failure budget.
UpdateChoices == {f \in UpdateFailures : faults + FailureCost(f) <= MaxFaults}

submit_new_task(priority) ==
    /\ UNCHANGED <<cvars, rvars>>
    /\ pc = "idle"
    /\ (nextId - 1) + Queue_size(new_task_queue) < MaxTasks
    /\ LET task_ptr == Task(submitted + 1, priority, "pending", 0)
       IN  new_task_queue' = Queue_enqueue(new_task_queue, task_ptr)
    /\ submitted' = submitted + 1
    /\ script' = MainOrder("submit")
    /\ calls' = <<>>
    /\ UNCHANGED <<dbvars, clock, task_scheduler, undo_stack, pc, cur, ncalls, faults>>

process_new_task_queue ==
    /\ UNCHANGED <<cvars, rvars>>
    /\ EntryPoint("process")
    /\ pc' = "process"
    /\ calls' = <<>>
    /\ UNCHANGED <<dbvars, clock, tmvars, cur, submitted, faults>>

\* One pass of the while loop: dequeue, createTask, sleep 500 ms.
process_new_task_queue_loop ==
    /\ UNCHANGED <<cvars, rvars>>
    /\ pc = "process"
    /\ ~Queue_isEmpty(new_task_queue)
    /\ \E fail \in CreateFailures, slept \in 1..2 :
        LET out == Queue_dequeue(new_task_queue)
            task_to_save == out.value
            reply == createTask(TheDb, task_to_save, clock, fail)
        IN  /\ fail # "none" => faults < MaxFaults
            /\ new_task_queue' = out.obj
            /\ SetDb(reply.db)
            /\ calls' = calls \o
                   <<Ev("dequeue", task_to_save.task_id, task_to_save.title,
                        out.thrown = "none", "", out.thrown, "none"),
                     Ev("createTask", reply.ret.second.task_id, task_to_save.title,
                        reply.ret.first, "", reply.thrown, fail)>>
            /\ faults' = IF fail = "none" THEN faults ELSE faults + 1
            /\ clock' = clock + slept
    /\ UNCHANGED <<task_scheduler, undo_stack, pc, cur, script, submitted, ncalls>>

process_new_task_queue_return ==
    /\ UNCHANGED <<cvars, rvars>>
    /\ pc = "process"
    /\ Queue_isEmpty(new_task_queue)
    /\ pc' = "idle"
    /\ UNCHANGED <<dbvars, clock, tmvars, cur, calls, script, submitted, ncalls, faults>>

\* Mutant of InsertAll: the tasks are keyed by task_id instead of priority.
RECURSIVE InsertAll_byId(_, _, _)
InsertAll_byId(pq, pending_tasks, i) ==
    IF i > Len(pending_tasks) THEN pq
    ELSE InsertAll_byId(PriorityQueue_insert(pq, pending_tasks[i], pending_tasks[i].task_id),
                        pending_tasks, i + 1)

\* The for loop of load_tasks_into_scheduler over pending_tasks[i..].
RECURSIVE InsertAll(_, _, _)
InsertAll(pq, pending_tasks, i) ==
    IF i > Len(pending_tasks) THEN pq
    ELSE InsertAll(PriorityQueue_insert(pq, pending_tasks[i], pending_tasks[i].priority),
                   pending_tasks, i + 1)

load_tasks_into_scheduler ==
    /\ UNCHANGED <<cvars, rvars>>
    /\ EntryPoint("load")
    /\ \E order \in PendingOrders(TheDb) :
       \E got \in 0..Len(order) :
        LET reply == getPendingTasks(TheDb, order, got)
            pending_tasks == reply.ret
        IN  /\ got < Len(order) => faults < MaxFaults
            /\ faults' = IF got < Len(order) THEN faults + 1 ELSE faults
            /\ calls' = <<Ev("getPendingTasks", 0, Len(pending_tasks), got = Len(order), "", "none",
                         IF got = Len(order) THEN "none" ELSE "fetch")>>
            /\ task_scheduler' = InsertAll(task_scheduler, pending_tasks, 1)
    /\ UNCHANGED <<dbvars, clock, new_task_queue, undo_stack, pc, cur, submitted>>

run_task_scheduler ==
    /\ UNCHANGED <<cvars, rvars>>
    /\ EntryPoint("run")
    /\ pc' = "run"
    /\ calls' = <<>>
    /\ UNCHANGED <<dbvars, clock, tmvars, cur, submitted, faults>>

\* First half of one pass of the while loop: extract_min, the update to
\* in_progress and, on success, the push of the UndoAction.
run_task_scheduler_loop ==
    /\ UNCHANGED <<cvars, rvars>>
    /\ pc = "run"
    /\ ~PriorityQueue_isEmpty(task_scheduler)
    /\ \E fail \in UpdateChoices :
        LET out == PriorityQueue_extract_min(task_scheduler)
            item == out.value
            task == item.second
            reply == updateTaskStatus(TheDb, task.task_id, "in_progress", fail)
            success == reply.ret.first
            old_status == reply.ret.second
            data == [task_id |-> to_string(task.task_id), old_status |-> old_status]
            seen == calls \o <<Ev("extract_min", task.task_id, item.first, out.thrown = "none", item.seq,
                                  out.thrown, "none"),
                               Ev("updateTaskStatus", task.task_id, "in_progress",
                                  reply.thrown = "none" /\ success, old_status,
                                  reply.thrown, fail.at)>>
        IN  /\ task_scheduler' = out.obj
            /\ SetDb(reply.db)
            /\ faults' = faults + FailureCost(fail)
            /\ cur' = task
            /\ IF reply.thrown # "none"
               THEN /\ pc' = "terminated"
                    /\ calls' = seen
                    /\ UNCHANGED undo_stack
               ELSE /\ pc' = "run_completing"
                    /\ IF success
                       THEN /\ undo_stack' = Stack_push(undo_stack, UndoAction("update_status", data))
                            /\ calls' = Append(seen, Ev("push", task.task_id, "update_status", TRUE, old_status, "none", "none"))
                       ELSE /\ UNCHANGED undo_stack
                            /\ calls' = seen
    /\ UNCHANGED <<clock, new_task_queue, script, submitted, ncalls>>

\* Second half of the pass: after the sleep, the update to completed.
run_task_scheduler_complete ==
    /\ UNCHANGED <<cvars, rvars>>
    /\ pc = "run_completing"
    /\ \E fail \in UpdateChoices :
        LET reply == updateTaskStatus(TheDb, cur.task_id, "completed", fail)
        IN  /\ SetDb(reply.db)
            /\ faults' = faults + FailureCost(fail)
            /\ calls' = Append(calls, Ev("updateTaskStatus", cur.task_id, "completed",
                                         reply.thrown = "none" /\ reply.ret.first,
                                         reply.ret.second, reply.thrown, fail.at))
            /\ pc' = IF reply.thrown # "none" THEN "terminated" ELSE "run"
            /\ cur' = IF reply.thrown # "none" THEN cur ELSE NoTask
    /\ UNCHANGED <<clock, tmvars, script, submitted, ncalls>>

run_task_scheduler_return ==
    /\ UNCHANGED <<cvars, rvars>>
    /\ pc = "run"
    /\ PriorityQueue_isEmpty(task_scheduler)
    /\ pc' = "idle"
    /\ UNCHANGED <<dbvars, clock, tmvars, cur, calls, script, submitted, ncalls, faults>>

\* Mutant of undo_last_action: pop() without the isEmpty() check.
undo_last_action_unchecked ==
    /\ UNCHANGED <<cvars, rvars>>
    /\ EntryPoint("undo")
    /\ LET out == Stack_pop(undo_stack)
       IN  /\ undo_stack' = out.obj
           /\ pc' = IF out.thrown # "none" THEN "terminated" ELSE "idle"
           /\ calls' = <<Ev("pop", 0, "", out.thrown = "none", "", out.thrown, "none")>>
    /\ UNCHANGED <<dbvars, faults, clock, new_task_queue, task_scheduler, cur, submitted>>

undo_last_action ==
    /\ UNCHANGED <<cvars, rvars>>
    /\ EntryPoint("undo")
    /\ IF Stack_isEmpty(undo_stack)
       THEN /\ calls' = <<Ev("print", 0, "Nothing to undo.", TRUE, "", "none", "none")>>
            /\ UNCHANGED <<dbvars, undo_stack, pc, faults>>
       ELSE LET out == Stack_pop(undo_stack)
                action == out.value
            IN  /\ undo_stack' = out.obj
                /\ IF action.action_name = "update_status"
                   THEN \E fail \in UpdateChoices :
                        LET task_id == stoi(action.data.task_id)
                            status_to_revert == action.data.old_status
                            reply == updateTaskStatus(TheDb, task_id, status_to_revert, fail)
                        IN  /\ SetDb(reply.db)
                            /\ faults' = faults + FailureCost(fail)
                            /\ pc' = IF reply.thrown # "none" THEN "terminated" ELSE "idle"
                            /\ calls' = <<Ev("pop", task_id, action.action_name, TRUE, status_to_revert, "none", "none"),
                                          Ev("updateTaskStatus", task_id, status_to_revert,
                                             reply.thrown = "none" /\ reply.ret.first,
                                             reply.ret.second, reply.thrown, fail.at)>>
                   ELSE /\ calls' = <<Ev("pop", 0, action.action_name, TRUE, "", "none", "none")>>
                        /\ UNCHANGED <<dbvars, pc, faults>>
    /\ UNCHANGED <<clock, new_task_queue, task_scheduler, cur, submitted>>

\* Another client of the shared database deletes a row of Tasks (nothing in the
\* schema forbids it); it waits while this connection holds a transaction open.
ExternalDelete ==
    /\ UNCHANGED <<cvars, rvars>>
    /\ pc # "terminated"
    /\ autoCommit
    /\ faults < MaxFaults
    /\ \E id \in DOMAIN Tasks :
        /\ Tasks' = [x \in DOMAIN Tasks \ {id} |-> Tasks[x]]
        /\ session' = [x \in DOMAIN session \ {id} |-> session[x]]
    /\ faults' = faults + 1
    /\ UNCHANGED <<autoCommit, nextId, clock, tmvars, pc, cur, calls, script, submitted, ncalls>>

\* The store main() finds: empty, or holding one row left by an earlier run.
InitialStores ==
    {NoRows, [id \in {1} |-> Row(0, 1, "pending", 0)]}

InitPipeline ==
    /\ Tasks \in InitialStores
    /\ session = Tasks
    /\ autoCommit = TRUE
    /\ nextId = Cardinality(DOMAIN Tasks) + 1
    /\ clock = 2
    /\ new_task_queue = Queue_new
    /\ task_scheduler = PriorityQueue_new
    /\ undo_stack = Stack_new
    /\ pc = "idle"
    /\ cur = NoTask
    /\ calls = <<>>
    /\ script = "submit"
    /\ submitted = 0
    /\ ncalls = 0
    /\ faults = 0

\* ------------------------------------------- two runs sharing the store
\* Two pipeline runs, each with its own DatabaseConnector and connection, call
\* updateTaskStatus on a row of the shared InnoDB table.  A call advances one
\* statement at a time; SELECT ... FOR UPDATE and UPDATE wait for the row's
\* exclusive lock, which the transaction holds until it commits or rolls back.
Runs == {1, 2}

NoWrites == [id \in {} |-> ""]

NoFailure == [at |-> "none", rb |-> "ok"]

\* The rows with the uncommitted writes w laid over them.
Overlay(rows, w) ==
    [id \in DOMAIN rows |->
        IF id \in DOMAIN w THEN [rows[id] EXCEPT !.status = w[id]] ELSE rows[id]]

\* The uncommitted writes held in the connection of db.
WritesOf(db) ==
    [id \in {x \in DOMAIN db.session : x \notin DOMAIN db.Tasks \/ db.session[x] # db.Tasks[x]}
        |-> db.session[id].status]

\* The store as run c's connection has it.
ConnDb(c) == Db(Tasks, Overlay(Tasks, runs[c].writes), runs[c].autoCommit, nextId)

\* The store as run c's connection has it when the calls are executed serially.
SerialDb(c) ==
    Db(serial.Tasks, Overlay(serial.Tasks, serial.writes[c]), serial.autoCommit[c], nextId)

\* Run c's call takes its place in the serial execution: the whole of
\* updateTaskStatus is applied to the serial store.
Serialize(c) ==
    LET r == runs[c]
        reply == updateTaskStatus(SerialDb(c), r.task_id, r.new_status, r.fail)
    IN  serial' = [Tasks |-> reply.db.Tasks,
                   writes |-> [serial.writes EXCEPT ![c] = WritesOf(reply.db)],
                   autoCommit |-> [serial.autoCommit EXCEPT ![c] = reply.db.autoCommit],
                   ret |-> [serial.ret EXCEPT ![c] = reply.ret]]

SetRun(c, r) == runs' = [runs EXCEPT ![c] = r]

Unlocked(c) == IF rowLock = c THEN 0 ELSE rowLock

\* Run c as its call returns: the call's parameters and locals are gone.
Returned(c) ==
    [runs[c] EXCEPT !.pc = "idle", !.task_id = 0, !.new_status = "", !.fail = NoFailure,
                    !.old_status = "", !.n = runs[c].n + 1]

\* A run calls updateTaskStatus(task_id, new_status); fail is what this call
\* will meet.  Its first statement is con->setAutoCommit(false).
updateTaskStatus_begin(c) ==
    /\ runs[c].pc = "idle"
    /\ runs[c].n < MaxRunCalls
    /\ \E task_id \in DOMAIN Tasks, new_status \in Statuses, fail \in UpdateChoices :
        /\ SetRun(c, [runs[c] EXCEPT !.pc = IF fail.at = "begin" THEN "catch" ELSE "select",
                                     !.autoCommit = IF fail.at = "begin" THEN @ ELSE FALSE,
                                     !.task_id = task_id, !.new_status = new_status,
                                     !.fail = fail, !.old_status = ""])
        /\ faults' = faults + FailureCost(fail)
    /\ UNCHANGED <<cvars, dbvars, clock, tmvars, pc, cur, calls, script, submitted, ncalls,
                   rowLock, serial>>

\* Mutant of updateTaskStatus_select: a plain SELECT, which reads the committed
\* row without taking the lock.
updateTaskStatus_select_unlocked(c) ==
    /\ runs[c].pc = "select"
    /\ IF runs[c].fail.at = "select"
       THEN SetRun(c, [runs[c] EXCEPT !.pc = "catch"])
       ELSE IF runs[c].task_id \notin DOMAIN ConnDb(c).session
       THEN SetRun(c, [runs[c] EXCEPT !.pc = "terminated"])
       ELSE SetRun(c, [runs[c] EXCEPT !.pc = "update",
                           !.old_status = ConnDb(c).session[runs[c].task_id].status])
    /\ UNCHANGED <<cvars, avars, rowLock, serial>>

\* SELECT status FROM Tasks WHERE task_id = ? FOR UPDATE, res->next(), getString
updateTaskStatus_select(c) ==
    /\ runs[c].pc = "select"
    /\ IF runs[c].fail.at = "select"
       THEN /\ SetRun(c, [runs[c] EXCEPT !.pc = "catch"])
            /\ UNCHANGED rowLock
       ELSE /\ rowLock \in {0, c}
            /\ rowLock' = c
            /\ IF runs[c].task_id \notin DOMAIN ConnDb(c).session
               THEN SetRun(c, [runs[c] EXCEPT !.pc = "terminated"])
               ELSE SetRun(c, [runs[c] EXCEPT !.pc = "update",
                                   !.old_status = ConnDb(c).session[runs[c].task_id].status])
    /\ UNCHANGED <<cvars, avars, serial>>

\* UPDATE Tasks SET status = ? WHERE task_id = ?
updateTaskStatus_update(c) ==
    /\ runs[c].pc = "update"
    /\ IF runs[c].fail.at = "update"
       THEN /\ SetRun(c, [runs[c] EXCEPT !.pc = "catch"])
            /\ UNCHANGED <<Tasks, rowLock>>
       ELSE LET db == ConnDb(c)
                after == Execute(db, [db.session EXCEPT ![runs[c].task_id].status =
                                                             runs[c].new_status])
            IN  /\ rowLock \in {0, c}
                /\ rowLock' = c
                /\ Tasks' = after.Tasks
                /\ SetRun(c, [runs[c] EXCEPT !.pc = "commit", !.writes = WritesOf(after)])
    /\ UNCHANGED <<cvars, session, autoCommit, nextId, clock, tmvars, pc, cur, calls, script,
                   submitted, ncalls, faults, serial>>

\* con->commit()
updateTaskStatus_commit(c) ==
    /\ runs[c].pc = "commit"
    /\ IF runs[c].fail.at = "commit"
       THEN /\ SetRun(c, [runs[c] EXCEPT !.pc = "catch"])
            /\ UNCHANGED <<Tasks, rowLock, serial>>
       ELSE LET after == Commit(ConnDb(c))
            IN  /\ Tasks' = after.Tasks
                /\ rowLock' = Unlocked(c)
                /\ SetRun(c, [runs[c] EXCEPT !.pc = "reset", !.writes = WritesOf(after)])
                /\ Serialize(c)
    /\ UNCHANGED <<cvars, session, autoCommit, nextId, clock, tmvars, pc, cur, calls, script,
                   submitted, ncalls, faults>>

\* con->setAutoCommit(true) and return std::make_pair(true, old_status)
updateTaskStatus_reset(c) ==
    /\ runs[c].pc = "reset"
    /\ IF runs[c].fail.at = "reset"
       THEN SetRun(c, [runs[c] EXCEPT !.pc = "catch"])
       ELSE SetRun(c, [Returned(c) EXCEPT !.autoCommit = TRUE,
                                          !.ret = Pair(TRUE, runs[c].old_status)])
    /\ UNCHANGED <<cvars, avars, rowLock, serial>>

\* catch (sql::SQLException &): rollback, setAutoCommit(true), return (false, old_status)
updateTaskStatus_handler(c) ==
    /\ runs[c].pc = "catch"
    /\ LET reply == updateTaskStatus_catch(ConnDb(c), runs[c].old_status, runs[c].fail.rb)
       IN  /\ Tasks' = reply.db.Tasks
           /\ rowLock' = IF runs[c].fail.rb = "rollback" THEN rowLock ELSE Unlocked(c)
           /\ SetRun(c, [Returned(c) EXCEPT !.autoCommit = reply.db.autoCommit,
                                              !.writes = WritesOf(reply.db),
                                              !.ret = reply.ret])
    /\ IF runs[c].fail.at = "reset" THEN UNCHANGED serial ELSE Serialize(c)
    /\ UNCHANGED <<cvars, session, autoCommit, nextId, clock, tmvars, pc, cur, calls, script,
                   submitted, ncalls, faults>>

\* No second run: the pipeline and the container harness have the store to themselves.
InitRuns ==
    /\ runs = [c \in Runs |-> [pc |-> "idle", autoCommit |-> TRUE, writes |-> NoWrites,
                               task_id |-> 0, new_status |-> "", fail |-> NoFailure,
                               old_status |-> "", ret |-> Pair(FALSE, ""), n |-> 0]]
    /\ rowLock = 0
    /\ serial = [Tasks |-> Tasks,
                 writes |-> [c \in Runs |-> NoWrites],
                 autoCommit |-> [c \in Runs |-> TRUE],
                 ret |-> [c \in Runs |-> Pair(FALSE, "")]]

\* ------------------------------------------------------ container harness
Items == 1..MaxItem

\* One log entry: the object and operation, its argument, whether isEmpty() held
\* before the call, and what the call returned or threw.
Logged(obj, op, arg, empty, out) ==
    [obj |-> obj, op |-> op, arg |-> arg, empty |-> empty,
     value |-> out.value, thrown |-> out.thrown]

InitContainers ==
    /\ tq = Queue_new
    /\ lq = TaskQueue_new
    /\ ts = Stack_new
    /\ opLog = <<>>
    /\ last = [tq |-> Queue_new, lq |-> TaskQueue_new, ts |-> Stack_new]

InitHarness ==
    /\ InitContainers
    /\ Tasks = NoRows
    /\ session = NoRows
    /\ autoCommit = TRUE
    /\ nextId = 1
    /\ clock = 2
    /\ new_task_queue = Queue_new
    /\ task_scheduler = PriorityQueue_new
    /\ undo_stack = Stack_new
    /\ pc = "idle"
    /\ cur = NoTask
    /\ calls = <<>>
    /\ script = "submit"
    /\ submitted = 0
    /\ ncalls = 0
    /\ faults = 0
    /\ InitRuns

Snapshot == [tq |-> tq, lq |-> lq, ts |-> ts]

TQEnqueue ==
    \E x \in Items :
        /\ Len(opLog) < MaxOps
        /\ tq' = Queue_enqueue(tq, x)
        /\ opLog' = Append(opLog, Logged("tq", "enqueue", x, Queue_isEmpty(tq), Outcome(tq', nullptr, "none")))
        /\ last' = Snapshot
        /\ UNCHANGED <<lq, ts>>
        /\ UNCHANGED <<avars, rvars>>

TQDequeue ==
    LET out == Queue_dequeue(tq)
    IN  /\ Len(opLog) < MaxOps
        /\ tq' = out.obj
        /\ opLog' = Append(opLog, Logged("tq", "dequeue", nullptr, Queue_isEmpty(tq), out))
        /\ last' = Snapshot
        /\ UNCHANGED <<lq, ts>>
        /\ UNCHANGED <<avars, rvars>>

LQEnqueue ==
    \E x \in Items :
        /\ Len(opLog) < MaxOps
        /\ lq' = TaskQueue_enqueue(lq, x)
        /\ opLog' = Append(opLog, Logged("lq", "enqueue", x, TaskQueue_isEmpty(lq), Outcome(lq', nullptr, "none")))
        /\ last' = Snapshot
        /\ UNCHANGED <<tq, ts>>
        /\ UNCHANGED <<avars, rvars>>

LQDequeue ==
    LET out == TaskQueue_dequeue(lq)
    IN  /\ Len(opLog) < MaxOps
        /\ lq' = out.obj
        /\ opLog' = Append(opLog, Logged("lq", "dequeue", nullptr, TaskQueue_isEmpty(lq), out))
        /\ last' = Snapshot
        /\ UNCHANGED <<tq, ts>>
        /\ UNCHANGED <<avars, rvars>>

TSPush ==
    \E x \in Items :
        /\ Len(opLog) < MaxOps
        /\ ts' = Stack_push(ts, x)
        /\ opLog' = Append(opLog, Logged("ts", "push", x, Stack_isEmpty(ts), Outcome(ts', nullptr, "none")))
        /\ last' = Snapshot
        /\ UNCHANGED <<tq, lq>>
        /\ UNCHANGED <<avars, rvars>>

TSPop ==
    LET out == Stack_pop(ts)
    IN  /\ Len(opLog) < MaxOps
        /\ ts' = out.obj
        /\ opLog' = Append(opLog, Logged("ts", "pop", nullptr, Stack_isEmpty(ts), out))
        /\ last' = Snapshot
        /\ UNCHANGED <<tq, lq>>
        /\ UNCHANGED <<avars, rvars>>

TSPeek ==
    LET out == Stack_peek(ts)
    IN  /\ Len(opLog) < MaxOps
        /\ ts' = out.obj
        /\ opLog' = Append(opLog, Logged("ts", "peek", nullptr, Stack_isEmpty(ts), out))
        /\ last' = Snapshot
        /\ UNCHANGED <<tq, lq>>
        /\ UNCHANGED <<avars, rvars>>

NextContainers ==
    \/ TQEnqueue
    \/ TQDequeue
    \/ LQEnqueue
    \/ LQDequeue
    \/ TSPush
    \/ TSPop
    \/ TSPeek

SpecContainers == InitHarness /\ [][NextContainers]_vars

\* ------------------------------------------------------------ the pipeline
Init == InitPipeline /\ InitContainers /\ InitRuns

NextAnyOrder ==
    \/ \E priority \in Priorities : submit_new_task(priority)
    \/ process_new_task_queue
    \/ process_new_task_queue_loop
    \/ process_new_task_queue_return
    \/ load_tasks_into_scheduler
    \/ run_task_scheduler
    \/ run_task_scheduler_loop
    \/ run_task_scheduler_complete
    \/ run_task_scheduler_return
    \/ undo_last_action
    \/ ExternalDelete

\* The entry points called in any order.
SpecAnyOrder == Init /\ [][NextAnyOrder]_vars

\* The entry points called in the order main() calls them.
InOrder == script' # "off"

Next ==
    \/ (\E priority \in Priorities : submit_new_task(priority)) /\ InOrder
    \/ process_new_task_queue /\ InOrder
    \/ process_new_task_queue_loop
    \/ process_new_task_queue_return
    \/ load_tasks_into_scheduler /\ InOrder
    \/ run_task_scheduler /\ InOrder
    \/ run_task_scheduler_loop
    \/ run_task_scheduler_complete
    \/ run_task_scheduler_return
    \/ undo_last_action /\ InOrder
    \/ ExternalDelete

Spec == Init /\ [][Next]_vars

\* Two runs, one contended row in any status, nothing else going on.
InitTwoRuns ==
    /\ InitContainers
    /\ Tasks \in {[id \in {1} |-> Row(0, 1, s, 0)] : s \in Statuses}
    /\ session = Tasks
    /\ autoCommit = TRUE
    /\ nextId = 2
    /\ clock = 2
    /\ new_task_queue = Queue_new
    /\ task_scheduler = PriorityQueue_new
    /\ undo_stack = Stack_new
    /\ pc = "idle"
    /\ cur = NoTask
    /\ calls = <<>>
    /\ script = "submit"
    /\ submitted = 0
    /\ ncalls = 0
    /\ faults = 0
    /\ InitRuns

NextTwoRuns ==
    \E c \in Runs :
        \/ updateTaskStatus_begin(c)
        \/ updateTaskStatus_select(c)
        \/ updateTaskStatus_update(c)
        \/ updateTaskStatus_commit(c)
        \/ updateTaskStatus_reset(c)
        \/ updateTaskStatus_handler(c)

SpecTwoRuns == InitTwoRuns /\ [][NextTwoRuns]_vars

\* ------------------------------------------------- container properties
\* The arguments of the enqueue calls applied to object o, in call order.
RECURSIVE Enqueued(_, _)
Enqueued(log, o) ==
    IF log = <<>> THEN <<>>
    ELSE LET e == log[Len(log)]
             rest == Enqueued(SubSeq(log, 1, Len(log) - 1), o)
         IN  IF e.obj = o /\ e.op = "enqueue" THEN Append(rest, e.arg) ELSE rest

\* The values returned by the dequeue calls on a non-empty object o, in call order.
RECURSIVE Dequeued(_, _)
Dequeued(log, o) ==
    IF log = <<>> THEN <<>>
    ELSE LET e == log[Len(log)]
             rest == Dequeued(SubSeq(log, 1, Len(log) - 1), o)
         IN  IF e.obj = o /\ e.op = "dequeue" /\ ~e.empty THEN Append(rest, e.value) ELSE rest

FifoOf(q, o) ==
    LET E == Enqueued(opLog, o)
        D == Dequeued(opLog, o)
    IN  /\ Len(D) <= Len(E)
        /\ D = SubSeq(E, 1, Len(D))
        /\ Chain(q.nodes, q.head) = SubSeq(E, Len(D) + 1, Len(E))
        /\ q._size = Len(E) - Len(D)

\* C2: on both Queue classes the items are dequeued in exactly the order they were
\* enqueued, nothing is lost or duplicated (the queue holds exactly the enqueued
\* items not yet dequeued, in order), and size() after k enqueues and j dequeues
\* that removed an item is k - j.
C2_FifoOrder == FifoOf(tq, "tq") /\ FifoOf(lq, "lq")

\* C2 witness: two different items were enqueued, one was dequeued, one remains.
C2_Witness ==
    \E o \in {"tq", "lq"} :
        /\ Len(Enqueued(opLog, o)) >= 2
        /\ Enqueued(opLog, o)[1] # Enqueued(opLog, o)[2]
        /\ Len(Dequeued(opLog, o)) = 1
        /\ opLog[Len(opLog)].op = "dequeue"

\* The pushed items not yet popped after the first n logged operations, most
\* recently pushed first.
RECURSIVE Unpopped(_, _)
Unpopped(log, n) ==
    IF n = 0 THEN <<>>
    ELSE LET e == log[n]
             prev == Unpopped(log, n - 1)
         IN  IF e.obj = "ts" /\ e.op = "push" THEN <<e.arg>> \o prev
             ELSE IF e.obj = "ts" /\ e.op = "pop" /\ prev # <<>> THEN Tail(prev)
             ELSE prev

\* C3: every pop on the Stack returns the most recently pushed item not yet popped
\* (so pop order reverses push order), peek returns that same item, and peek leaves
\* the stack as it was.
C3_LifoOrder ==
    /\ \A n \in 1..Len(opLog) :
          (opLog[n].obj = "ts" /\ opLog[n].op \in {"pop", "peek"} /\ Unpopped(opLog, n - 1) # <<>>)
              => /\ opLog[n].thrown = "none"
                 /\ opLog[n].value = Head(Unpopped(opLog, n - 1))
    /\ Chain(ts.nodes, ts.top) = Unpopped(opLog, Len(opLog))
    /\ ts._size = Len(Unpopped(opLog, Len(opLog)))
    /\ (opLog # <<>> /\ opLog[Len(opLog)].op = "peek") => ts = last.ts

\* C3 witness: two different items were pushed, then one popped and the next peeked.
C3_Witness ==
    /\ Len(opLog) = 4
    /\ opLog[1].obj = "ts" /\ opLog[1].op = "push"
    /\ opLog[2].obj = "ts" /\ opLog[2].op = "push" /\ opLog[2].arg # opLog[1].arg
    /\ opLog[3].obj = "ts" /\ opLog[3].op = "pop"
    /\ opLog[4].obj = "ts" /\ opLog[4].op = "peek"

\* C10: every removal from an empty container (dequeue on an empty Queue of either
\* class, pop or peek on an empty Stack) throws rather than returning a value, and
\* leaves the container as it was.
C10_EmptyRemovalThrows ==
    /\ \A n \in 1..Len(opLog) :
          (opLog[n].op \in {"dequeue", "pop", "peek"} /\ opLog[n].empty)
              => opLog[n].thrown # "none"
    /\ (opLog # <<>> /\ opLog[Len(opLog)].op \in {"dequeue", "pop", "peek"}
            /\ opLog[Len(opLog)].empty)
          => Snapshot = last

\* -------------------------------------------------- pipeline properties
\* The events the step under way appended to calls (an entry-point call starts
\* the log afresh).
NewEvents ==
    IF ncalls' # ncalls THEN calls'
    ELSE IF Len(calls') > Len(calls) THEN SubSeq(calls', Len(calls) + 1, Len(calls'))
    ELSE <<>>

IsUpdate(e) == e.op = "updateTaskStatus"

\* C1: in run_task_scheduler, after an update to in_progress that returned
\* success=false no UndoAction is pushed for the task and no update to completed is
\* attempted for it: the next thing the loop does is extract the next task.
C1_FailedStartAbandonsTask ==
    \A i \in 1..Len(calls) :
        (IsUpdate(calls[i]) /\ calls[i].arg = "in_progress" /\ ~calls[i].ok
            /\ calls[i].thrown = "none" /\ i < Len(calls))
        => /\ calls[i + 1].op # "push"
           /\ ~(IsUpdate(calls[i + 1]) /\ calls[i + 1].arg = "completed"
                  /\ calls[i + 1].id = calls[i].id)

\* The extract_min events of the current run_task_scheduler call, in order.
Extracted == SelectSeq(calls, LAMBDA e : e.op = "extract_min")

RoundTripDone ==
    /\ script = "undo"
    /\ pc = "idle"
    /\ faults = 0
    /\ submitted = 1
    /\ nextId = 2
    /\ DOMAIN Tasks = {1}
    /\ Tasks[1].priority = 2

\* C5: after submit, persist-new, load-pending, execute and undo of a single task
\* of priority 2 with no gateway failure, the task's durable status is pending (its
\* status before the in_progress transition), not completed.
C5_RoundTripPending ==
    RoundTripDone => (Tasks[1].status = "pending" /\ session = Tasks)

C5_Witness == RoundTripDone /\ Len(calls) = 2 /\ IsUpdate(calls[2]) /\ calls[2].ok

\* C6: an updateTaskStatus call that fails inside its transaction (the row was
\* not found by the locking read, or a statement after the read threw before the
\* commit was done) returns success=false and leaves the row's status, committed
\* and as read through the connection, as it was before the call.
C6_FailedUpdateRollsBack ==
    [][\A i \in 1..Len(NewEvents) :
          LET e == NewEvents[i]
          IN  (IsUpdate(e) /\ (e.fail \in {"update", "commit"} \/ e.thrown # "none"))
              => /\ e.thrown = "none"
                 /\ ~e.ok
                 /\ e.id \in DOMAIN Tasks =>
                        (e.id \in DOMAIN Tasks' /\ Tasks'[e.id].status = Tasks[e.id].status)
                 /\ e.id \in DOMAIN session =>
                        (e.id \in DOMAIN session' /\ session'[e.id].status = session[e.id].status)
      ]_vars

\* C7: an updateTaskStatus call for a task_id that has no row returns
\* success=false instead of throwing, changes no row, and leaves the connection
\* in autocommit mode with no transaction open.
C7_NotFoundReturnsFalse ==
    [][\A i \in 1..Len(NewEvents) :
          LET e == NewEvents[i]
          IN  (IsUpdate(e) /\ e.fail = "none" /\ e.id \notin DOMAIN session)
              => /\ e.thrown = "none"
                 /\ ~e.ok
                 /\ Tasks' = Tasks
                 /\ session' = Tasks'
                 /\ autoCommit'
      ]_vars

\* C8: no entry point is ever left by an exception: whatever gateway calls fail,
\* the run is never aborted.
C8_NeverAborted == pc # "terminated"

\* The step under way is a call of undo_last_action.
UndoCalled == ncalls' # ncalls /\ calls' # <<>> /\ calls'[1].op \in {"pop", "print"}

\* C9: undo_last_action on an empty undo stack prints "Nothing to undo.", returns
\* normally, makes no gateway call, and leaves storage and the three containers
\* as they were (so the stack is still empty and a repeated call does the same).
C9_UndoOnEmptyIsNoOp ==
    [][(UndoCalled /\ Stack_isEmpty(undo_stack))
        => /\ calls' = <<Ev("print", 0, "Nothing to undo.", TRUE, "", "none", "none")>>
           /\ pc' = "idle"
           /\ UNCHANGED <<Tasks, session, autoCommit, nextId>>
           /\ UNCHANGED <<new_task_queue, task_scheduler, undo_stack>>
      ]_vars

\* C9 witness: undo_last_action was called a second time, on an empty stack.
C9_Witness ==
    /\ script = "undo"
    /\ ncalls = 5
    /\ calls = <<Ev("print", 0, "Nothing to undo.", TRUE, "", "none", "none")>>
    /\ Stack_isEmpty(undo_stack)

\* A removal from one of the orchestrator's containers.
IsRemoval(e) == e.op \in {"dequeue", "extract_min", "pop"}

\* What isEmpty() answers on the container the removal e is made on.
IsEmptyFor(e) ==
    IF e.op = "dequeue" THEN Queue_isEmpty(new_task_queue)
    ELSE IF e.op = "extract_min" THEN PriorityQueue_isEmpty(task_scheduler)
    ELSE Stack_isEmpty(undo_stack)

\* C11: whatever order the entry points are called in and whatever gateway calls
\* fail, every dequeue, extract_min and pop the orchestrator makes is made on a
\* container whose isEmpty() answers false in the state the removal starts from,
\* and none of them throws.
C11_RemovalsAreChecked ==
    [][\A i \in 1..Len(NewEvents) :
          IsRemoval(NewEvents[i]) => (~IsEmptyFor(NewEvents[i]) /\ NewEvents[i].thrown = "none")
      ]_vars

\* C11 witness: with the entry points called out of main()'s order and a gateway
\* failure behind it, undo_last_action popped an UndoAction.
C11_Witness ==
    /\ script = "off"
    /\ faults > 0
    /\ calls # <<>>
    /\ calls[1].op = "pop"
    /\ calls[1].thrown = "none"

\* The submission number (carried as the title) of the task stored under id; 0 for
\* a row that was not submitted in this run or is no longer stored.
SubmissionNo(id) == IF id \in DOMAIN session THEN session[id].title ELSE 0

\* C12: the tasks submitted in one run are executed in non-decreasing priority
\* order, and those of equal priority in the order they were submitted (so after
\* submitting priorities 1,2,4,5,1 the first task extracted is the first-submitted
\* priority-1 task).
C12_SubmissionOrderAmongTies ==
    \A i, j \in 1..Len(Extracted) :
        (i < j /\ SubmissionNo(Extracted[i].id) > 0 /\ SubmissionNo(Extracted[j].id) > 0)
        => \/ Extracted[i].arg < Extracted[j].arg
           \/ /\ Extracted[i].arg = Extracted[j].arg
              /\ SubmissionNo(Extracted[i].id) < SubmissionNo(Extracted[j].id)

\* The titles passed to createTask by the current process_new_task_queue call, in
\* call order.
RECURSIVE Created(_)
Created(log) ==
    IF log = <<>> THEN <<>>
    ELSE LET e == log[Len(log)]
             rest == Created(SubSeq(log, 1, Len(log) - 1))
         IN  IF e.op = "createTask" THEN Append(rest, e.arg) ELSE rest

\* C13: a createTask call that fails leaves the task without identifier and
\* without a row (so the following load cannot insert it into the scheduler), and
\* the persist loop goes on: when it returns, every queued task has been passed to
\* createTask exactly once, in submission order.
C13_FailedCreateDropsTask ==
    [][/\ \A i \in 1..Len(NewEvents) :
             LET e == NewEvents[i]
             IN  (e.op = "createTask" /\ ~e.ok)
                 => /\ e.id = 0
                    /\ Tasks' = Tasks
                    /\ session' = session
       /\ (pc = "process" /\ pc' = "idle")
             => Created(calls') = [k \in 1..submitted |-> k]
      ]_vars

\* The UndoActions that the successful in_progress updates logged in log call
\* for, the one for the most recently executed task first.
RECURSIVE Started(_)
Started(log) ==
    IF log = <<>> THEN <<>>
    ELSE LET e == log[Len(log)]
             rest == Started(SubSeq(log, 1, Len(log) - 1))
         IN  IF IsUpdate(e) /\ e.arg = "in_progress" /\ e.ok
             THEN <<UndoAction("update_status",
                               [task_id |-> to_string(e.id), old_status |-> e.old])>> \o rest
             ELSE rest

\* C14: during run_task_scheduler an UndoAction is created exactly when a
\* transition to in_progress is durably committed: the update of a task returns
\* success exactly when it committed the row as in_progress, the old status it
\* returns is the one the row held, and the undo stack holds one update_status
\* action (task id, old status) per successful update and no other, in execution
\* order.
C14_UndoActionIffCommitted ==
    [][/\ pc = "run" =>
            \A i \in 1..Len(NewEvents) :
                LET e == NewEvents[i]
                IN  (IsUpdate(e) /\ e.arg = "in_progress")
                    => /\ e.ok <=> /\ e.id \in DOMAIN Tasks'
                                   /\ Tasks'[e.id].status = "in_progress"
                                   /\ Tasks' # Tasks
                       /\ e.ok => e.old = session[e.id].status
       /\ pc' \in {"run", "run_completing"}
            => Chain(undo_stack'.nodes, undo_stack'.top) = Started(calls')
      ]_vars

\* main() has made its last call: process_new_task_queue, load_tasks_into_scheduler,
\* run_task_scheduler and one undo_last_action have returned.
MainEnded == script = "undo" /\ pc = "idle" /\ ncalls = 4

\* C15: when one full run as driven by main() ends, the FIFO queue, the scheduler
\* and the undo stack are all empty, however many tasks were submitted.
C15_ContainersDrainedAtEnd ==
    MainEnded => /\ Queue_isEmpty(new_task_queue)
                 /\ PriorityQueue_isEmpty(task_scheduler)
                 /\ Stack_isEmpty(undo_stack)

\* C16: with two runs calling updateTaskStatus on the same row, statement by
\* statement in any interleaving, the committed rows are at every moment those of
\* the same calls executed one at a time, and each call that has returned has
\* returned the pair (success, old status) it returns in that serial execution and
\* left its connection as that execution leaves it.
C16_UpdatesSerializable ==
    /\ Tasks = serial.Tasks
    /\ \A c \in Runs :
          runs[c].pc = "idle"
              => /\ runs[c].ret = serial.ret[c]
                 /\ runs[c].writes = serial.writes[c]
                 /\ runs[c].autoCommit = serial.autoCommit[c]

\* C16 witness: a call of one run has committed a change of status and has not yet
\* returned, and meanwhile a call of the other run has read the row, overwritten
\* it and returned the status the first call wrote.
C16_Witness ==
    \E c, d \in Runs :
        /\ c # d
        /\ runs[c].pc = "reset"
        /\ runs[c].new_status # runs[c].old_status
        /\ runs[d].pc = "idle"
        /\ runs[d].n > 0
        /\ runs[d].ret = Pair(TRUE, runs[c].new_status)
        /\ Tasks[runs[c].task_id].status # runs[c].new_status

\* The Task objects held by the FIFO queue, and those held by the scheduler.
QueuedTasks == Chain(new_task_queue.nodes, new_task_queue.head)

ScheduledTasks == [i \in 1..Len(task_scheduler.items) |-> task_scheduler.items[i].data]

\* C17: every task in the FIFO queue has identifier 0; every task in the scheduler
\* has a non-zero identifier that storage assigned, and while its row is stored
\* it is the row of that very task; storage hands out each identifier once (every
\* stored row's identifier is below the counter, which never goes back); and no
\* step changes the identifier under which a task is stored.
C17_IdentifierInvariant ==
    /\ [](/\ \A i \in 1..Len(QueuedTasks) : QueuedTasks[i].task_id = 0
          /\ \A i \in 1..Len(ScheduledTasks) :
                LET t == ScheduledTasks[i]
                IN  /\ t.task_id # 0
                    /\ t.task_id < nextId
                    /\ t.task_id \in DOMAIN session => session[t.task_id].title = t.title
          /\ \A id \in DOMAIN session : 0 < id /\ id < nextId)
    /\ [][/\ nextId' >= nextId
          /\ \A id \in DOMAIN session \cap DOMAIN session' :
                session'[id].title = session[id].title
          /\ \A id \in DOMAIN session' \ DOMAIN session : id >= nextId
         ]_vars

\* C17 witness: a task submitted in this run has been stored and loaded into the
\* scheduler under its identifier while another, unsaved task waits in the queue.
C17_Witness ==
    /\ ~Queue_isEmpty(new_task_queue)
    /\ \E i \in 1..Len(ScheduledTasks) :
          /\ ScheduledTasks[i].title > 0
          /\ ScheduledTasks[i].task_id \in DOMAIN Tasks

\* C18: an updateTaskStatus call that returns success=true returns with it the
\* status the row durably held immediately before the call, leaves the row's
\* durable status equal to the new status, and changes no other row.
C18_SuccessfulUpdate ==
    [][\A i \in 1..Len(NewEvents) :
          LET e == NewEvents[i]
          IN  (IsUpdate(e) /\ e.ok)
              => /\ e.id \in DOMAIN Tasks
                 /\ e.old = Tasks[e.id].status
                 /\ DOMAIN Tasks' = DOMAIN Tasks
                 /\ Tasks'[e.id].status = e.arg
                 /\ \A id \in DOMAIN Tasks \ {e.id} : Tasks'[id] = Tasks[id]
      ]_vars

\* C19: an undo_last_action call made with UndoActions stacked pops exactly one of
\* them, the one of the task executed last (right after run_task_scheduler: the
\* last task whose in_progress update succeeded), issues exactly one status
\* update, for that task and with its recorded old status, leaves the durable row
\* of every other task as it was, shrinks the stack by exactly one and pushes
\* nothing.
C19_UndoRevertsOnlyLast ==
    [][(UndoCalled /\ ~Stack_isEmpty(undo_stack))
        => LET top == Stack_peek(undo_stack).value
               target == stoi(top.data.task_id)
           IN  /\ script = "run" => top = Started(calls)[1]
               /\ Len(calls') = 2
               /\ calls'[1].op = "pop"
               /\ IsUpdate(calls'[2])
               /\ calls'[2].id = target
               /\ calls'[2].arg = top.data.old_status
               /\ \A id \in DOMAIN Tasks \ {target} :
                     id \in DOMAIN Tasks' /\ Tasks'[id] = Tasks[id]
               /\ Chain(undo_stack'.nodes, undo_stack'.top)
                     = Tail(Chain(undo_stack.nodes, undo_stack.top))
               /\ Stack_size(undo_stack') = Stack_size(undo_stack) - 1
      ]_vars

\* C20: whatever entry points are called, and in whatever order, the scheduler
\* holds at most one entry per task identifier, and no drain of it executes a
\* task (or pushes an UndoAction for it) twice.
C20_OneEntryPerTask ==
    /\ \A i, j \in 1..Len(ScheduledTasks) :
          i # j => ScheduledTasks[i].task_id # ScheduledTasks[j].task_id
    /\ \A i, j \in 1..Len(Extracted) : i # j => Extracted[i].id # Extracted[j].id

\* C21: whenever an updateTaskStatus call has finished, however it was left (after
\* the commit, after a failure with its rollback, after a failed rollback, or for
\* a task that was not found), the connection is in autocommit mode again and
\* holds no open transaction: nothing uncommitted is left in it.
C21_AutocommitRestored ==
    [][\A i \in 1..Len(NewEvents) :
          IsUpdate(NewEvents[i]) => (autoCommit' /\ session' = Tasks')
      ]_vars

\* The addresses of the nodes reachable from address a following next, in order.
RECURSIVE Reachable(_, _)
Reachable(nodes, a) ==
    IF a = nullptr THEN <<>> ELSE <<a>> \o Reachable(nodes, nodes[a].next)

QueueWellFormed(q) ==
    LET reach == Reachable(q.nodes, q.head)
    IN  /\ (q.head = nullptr) <=> (q.tail = nullptr)
        /\ (q.head = nullptr) <=> (Queue_size(q) = 0)
        /\ Queue_size(q) >= 0
        /\ Queue_size(q) = Len(reach)
        /\ q.head # nullptr => q.tail = reach[Len(reach)]

\* C22: after any sequence of enqueue and dequeue operations, on both Queue
\* classes, head is null exactly when tail is null exactly when size() is 0,
\* size() is the number of nodes reachable from head and is never negative, and
\* tail is the last node reachable from head.
C22_QueueStructure == QueueWellFormed(tq) /\ QueueWellFormed(lq)

\* C22 witness: a Queue grew to two nodes and was emptied again by two dequeues.
C22_Witness ==
    \E o \in {"tq", "lq"} :
        /\ Len(opLog) = 4
        /\ \A n \in 1..4 : opLog[n].obj = o
        /\ opLog[1].op = "enqueue" /\ opLog[2].op = "enqueue"
        /\ opLog[3].op = "dequeue" /\ opLog[4].op = "dequeue"
        /\ (IF o = "tq" THEN tq ELSE lq).head = nullptr

====
